---- MODULE Spec2Model ----
(***************************************************************************)
(* State-machine model of the token-scoped feed reader in src/app.py.      *)
(* The state is the two PostgreSQL tables (feeds_a1b2c3, articles_d4e5f6), *)
(* their SERIAL sequences, and the response of the request being served.   *)
(* Every Flask handler is one action: a handler runs one transaction and   *)
(* commits at most once.  Requests are served one at a time: a handler     *)
(* runs when no response is pending, and Respond hands the pending         *)
(* response to the client.                                                 *)
(*                                                                         *)
(* ConcurrentSpec is the finer-grained specification of the same handlers  *)
(* for two requests served at once (the development server is threaded):   *)
(* every request has its own connection, hence its own transaction, and    *)
(* one step is one SQL statement or the commit.  txns holds the open       *)
(* transactions; it stays empty of work in Spec.                           *)
(*                                                                         *)
(* The collaborators (feedparser, the scraper, the browsers holding        *)
(* tokens) are the environment.  `world` names one of a few small          *)
(* environments: the tokens in use, the feed URLs that exist and the       *)
(* documents each of them serves.  It is chosen initially and never        *)
(* changes.                                                                *)
(*                                                                         *)
(* init_db creates the tables with CREATE TABLE IF NOT EXISTS, and its     *)
(* articles table has no column `unlisted`, which five statements of       *)
(* app.py name.  unlisted_column says which database the program runs on:  *)
(* FALSE, the tables init_db created (every statement that names the       *)
(* column fails); TRUE, an articles table that was there before init_db    *)
(* ran and has the column (BOOLEAN, default FALSE).  It never changes.     *)
(***************************************************************************)
EXTENDS FiniteSets, Integers, Sequences, TLC

VARIABLES world, unlisted_column, feeds, articles, feed_seq, article_seq,
          resp, txns

vars == <<world, unlisted_column, feeds, articles, feed_seq, article_seq,
         resp, txns>>

(***************************************************************************)
(* Bounds of the model.                                                    *)
(***************************************************************************)
\* Cap on the values drawn from the feeds id sequence.
MaxFeedSeq == 2
\* Cap on the values drawn from the articles id sequence.
MaxArticleSeq == 4

(***************************************************************************)
(* Values.                                                                 *)
(***************************************************************************)
\* Python None / a missing JSON key, query argument, cookie or attribute.
None == "None"
\* SQL NULL of a TIMESTAMP column, and an absent published_parsed.
NoTime == <<>>
\* A published_parsed that is present with the value None: feedparser sets it
\* so when it cannot parse the entry's date.  (The parsed times are <<1>>,
\* <<2>>.)
NullTime == <<0>>

\* What the full-content scraper can return for an article URL.
Scraped(url) == IF url = "u1" THEN {None, "full"} ELSE {None, ""}

\* Page URLs given to subscribe_feed: missing, without hostname, a page.
PageUrls == {None, "nohost", "http://page"}

HttpOk == 200
HttpFound == 302
HttpBadRequest == 400
HttpForbidden == 403
HttpNotFound == 404
HttpServerError == 500

(***************************************************************************)
(* Feed entries as feedparser returns them.  An absent attribute is None   *)
(* (NoTime for published_parsed, whose present values are a time or        *)
(* NullTime).                                                              *)
(***************************************************************************)
Entry(title, link, description, published_parsed) ==
    [title |-> title, link |-> link, description |-> description,
     published_parsed |-> published_parsed]

E1 == Entry("t1", "u1", None, NoTime)
E1x == Entry("t1x", "u1", "d1x", <<2>>)
E2 == Entry("t2", "u2", "d2", <<1>>)
E3 == Entry("t3", "u3", "d3", <<2>>)
E4 == Entry("t4", "u4", "d4", NoTime)
ENoLink == Entry("t5", None, "d5", NoTime)
ENullTime == Entry("t6", "u6", "d6", NullTime)

(***************************************************************************)
(* The environments.                                                       *)
(*   tenants:  two tokens, one feed URL with one entry                      *)
(*   feeds:    one token, two feed URLs whose documents share an entry     *)
(*   backlog:  one token, one feed URL with three entries, or one entry    *)
(*             repeated, or an entry without a link                        *)
(*   named:    one token, whose text is the constraint name add_feed looks *)
(*             for; two feed URLs, one of which holds that name, each with *)
(*             one entry, or with a second entry whose date feedparser     *)
(*             could not parse                                             *)
(*   one:      one token, one feed URL whose entry list repeats an entry   *)
(*             URL                                                         *)
(*   pair:     one token, two feed URLs that serve the same entry          *)
(***************************************************************************)
Worlds == {"tenants", "feeds", "backlog", "named", "one", "pair"}

\* The tokens browsers hold (a token is any text the client sends).
Tokens ==
    IF world = "tenants" THEN {"T1", "T2"}
    ELSE IF world = "named" THEN {"unique_feed_url"}
    ELSE {"T1"}

\* The feed URLs that exist.
FeedUrls ==
    IF world \in {"feeds", "pair"} THEN {"fa", "fb"}
    ELSE IF world = "named" THEN {"fa", "http://h/unique_feed_url.xml"}
    ELSE {"fa"}

\* The entry lists a feed URL serves over time.
Documents(url) ==
    IF world \in {"tenants", "pair"} THEN { <<E3>> }
    ELSE IF world = "one" THEN { <<E1x, E1>> }
    ELSE IF world = "named" THEN { <<E3>>, <<E3, ENullTime>> }
    ELSE IF world = "feeds"
    THEN (IF url = "fa" THEN { <<E2, E3>> } ELSE { <<E3, E4>> })
    ELSE { <<E1, E2, E3>>, <<E1x, E1>>, <<E2, ENoLink>> }

\* The title of the feed at a URL; None: the feed has no title.
FeedTitles(url) == IF url = "fa" THEN {"Example"} ELSE {None}

\* feedparser.parse(url): bozo is set when the feed could not be retrieved
\* or parsed; parse does not raise and entries is then empty.
Fetched(url) ==
    { [bozo |-> FALSE, entries |-> l] : l \in Documents(url) }
        \cup { [bozo |-> TRUE, entries |-> <<>>] }

(***************************************************************************)
(* Python truthiness of the request values used in `if not x`.             *)
(***************************************************************************)
Falsy(x) == x \in {None, ""}

\* The same test on a feed or article id of a JSON body: 0 stands for every
\* falsy id (a missing key, null, 0).
FalsyId(id) == id = 0

\* request.args.get("feed_id") is a text or None.  A number n >= 0 stands
\* for its digits ("0" is a text, and truthy), MissingArg for no argument or
\* an empty one, NotANumber for a text that PostgreSQL cannot read as an
\* integer.
MissingArg == -1

NotANumber == -2

\* `if not feed_id` on the query argument.
FalsyArg(feed_id) == feed_id = MissingArg

\* a or b
OrElse(a, b) == IF Falsy(a) THEN b ELSE a

(***************************************************************************)
(* Storage layer.                                                          *)
(***************************************************************************)
\* PostgreSQL's name for the unnamed UNIQUE (url, token) of feeds_a1b2c3.
FeedUniqueConstraint == "feeds_a1b2c3_url_token_key"

\* The constraint name add_feed looks for in the error text.
AddFeedExpectedConstraint == "unique_feed_url"

\* str(e) of a unique violation, as the texts it is made of: the message
\* names the constraint, the DETAIL line gives the url and the token of the
\* row ("Key (url, token)=(..., ...) already exists.").
UniqueViolationText(constraint, url, token) == <<constraint, url, token>>

\* The texts of the model in which AddFeedExpectedConstraint occurs.
NamingExpectedConstraint ==
    {AddFeedExpectedConstraint, "http://h/unique_feed_url.xml"}

\* "unique_feed_url" in str(e)
MentionsExpectedConstraint(text) ==
    \E i \in DOMAIN text : text[i] \in NamingExpectedConstraint

FeedRow(id, url, title, token) ==
    [id |-> id, url |-> url, title |-> title, token |-> token]

\* SELECT id FROM feeds_a1b2c3 WHERE url = %s AND token = %s
FeedsByUrl(url, token) == {f \in feeds : f.url = url /\ f.token = token}

\* SELECT url FROM feeds_a1b2c3 WHERE id = %s AND token = %s
FeedsById(id, token) == {f \in feeds : f.id = id /\ f.token = token}

\* A statement that names the column unlisted of a table without it fails
\* (psycopg2.errors.UndefinedColumn), whatever rows the table holds.
UndefinedColumn == ~unlisted_column

\* A new row of articles_d4e5f6 with the defaults of its columns.
ArticleRow(id, feed_id, title, url, content, published_at, token) ==
    IF unlisted_column
    THEN [id |-> id, feed_id |-> feed_id, title |-> title, url |-> url,
          content |-> content, published_at |-> published_at,
          is_read |-> FALSE, starred |-> FALSE, unlisted |-> FALSE,
          token |-> token]
    ELSE [id |-> id, feed_id |-> feed_id, title |-> title, url |-> url,
          content |-> content, published_at |-> published_at,
          is_read |-> FALSE, starred |-> FALSE, token |-> token]

\* Mutant: the unique constraint is missing, no row ever conflicts.
ArticleConflicts_NoConstraint(rows, url, token) == {}

\* UNIQUE (url, token) of articles_d4e5f6: the rows a new row conflicts with.
ArticleConflicts(rows, url, token) ==
    {a \in rows : a.url = url /\ a.token = token}

(***************************************************************************)
(* The request being served and its response.                             *)
(***************************************************************************)
Resp(op, cookie, token, arg, val, status, error, body) ==
    [op |-> op, cookie |-> cookie, token |-> token, arg |-> arg, val |-> val,
     status |-> status, error |-> error, body |-> body]

\* No request is being served.
Idle == Resp("idle", None, None, None, None, HttpOk, None, None)

\* The connections of the two requests that can be served at once.
Conns == {"c1", "c2"}

\* The transaction of a connection: the handler that opened it, the next
\* statement (pc), the token and argument of the request, the value got
\* from the collaborator, the index of the next entry, the id drawn for the
\* row of the running INSERT, and the row versions written and not yet
\* committed.
Txn(op, pc, token, arg, val, i, id, written) ==
    [op |-> op, pc |-> pc, token |-> token, arg |-> arg, val |-> val,
     i |-> i, id |-> id, written |-> written]

\* No connection is open.
NoTxn == Txn("idle", "idle", None, None, None, 0, 0, {})

Init ==
    /\ world \in Worlds
    /\ unlisted_column \in BOOLEAN
    /\ feeds = {}
    /\ articles = {}
    /\ feed_seq = 0
    /\ article_seq = 0
    /\ resp = Idle
    /\ txns = [c \in Conns |-> NoTxn]

\* A request rejected before any statement is executed.
Reject(op, cookie, token, arg, val, status, error) ==
    /\ resp' = Resp(op, cookie, token, arg, val, status, error, None)
    /\ UNCHANGED <<feeds, articles, feed_seq, article_seq>>

(***************************************************************************)
(* Subscribing.                                                            *)
(***************************************************************************)
\* feed.feed.get("title", "Untitled Feed")
TitleOrDefault(title) == IF title = None THEN "Untitled Feed" ELSE title

\* GET /  (token from the query string or the cookie, optional feed_url)
index(argtoken, cookie, feed_url) ==
    LET token == OrElse(argtoken, cookie) IN
    /\ resp = Idle
    /\ UNCHANGED <<world, unlisted_column, txns>>
    /\ IF Falsy(token)
       THEN Reject("index", cookie, None, None, None, HttpFound, None)
       ELSE IF Falsy(feed_url)
       THEN Reject("index", cookie, token, feed_url, None, HttpOk, None)
       ELSE \E title \in FeedTitles(feed_url) :
            IF FeedsByUrl(feed_url, token) # {}
            THEN Reject("index", cookie, token, feed_url, None, HttpOk, None)
            ELSE /\ feed_seq < MaxFeedSeq
                 /\ feed_seq' = feed_seq + 1
                 /\ feeds' = feeds \cup
                        {FeedRow(feed_seq + 1, feed_url, TitleOrDefault(title),
                                 token)}
                 /\ resp' = Resp("index", cookie, token, feed_url, None,
                                 HttpOk, None, None)
                 /\ UNCHANGED <<articles, article_seq>>

\* The except branch of add_feed, given str(e).
AddFeedError(text) ==
    IF MentionsExpectedConstraint(text)
    THEN [status |-> HttpBadRequest, error |-> "Feed already exists"]
    ELSE [status |-> HttpServerError, error |-> "Database error"]

\* POST /api/add_feed
add_feed(cookie, feed_url) ==
    /\ resp = Idle
    /\ UNCHANGED <<world, unlisted_column, txns>>
    /\ IF Falsy(cookie)
       THEN Reject("add_feed", cookie, None, None, None,
                   HttpForbidden, "Token not found")
       ELSE IF Falsy(feed_url)
       THEN Reject("add_feed", cookie, cookie, feed_url, None,
                   HttpBadRequest, "URL is required")
       ELSE \E title \in FeedTitles(feed_url) :
            /\ feed_seq < MaxFeedSeq
            \* nextval is taken before the unique index is checked
            /\ feed_seq' = feed_seq + 1
            /\ IF FeedsByUrl(feed_url, cookie) # {}
               THEN LET e == UniqueViolationText(FeedUniqueConstraint,
                                                 feed_url, cookie)
                    IN /\ feeds' = feeds
                       /\ resp' = Resp("add_feed", cookie, cookie, feed_url,
                                       None, AddFeedError(e).status,
                                       AddFeedError(e).error, None)
               ELSE /\ feeds' = feeds \cup
                        {FeedRow(feed_seq + 1, feed_url,
                                 TitleOrDefault(title), cookie)}
                    /\ resp' = Resp("add_feed", cookie, cookie, feed_url, None,
                                    HttpOk, None, TitleOrDefault(title))
            /\ UNCHANGED <<articles, article_seq>>

\* urlparse(url).hostname
Hostname(url) == IF url = "http://page" THEN "page" ELSE None

\* POST /api/subscribe_feed; feed_url is what extract_feed_url_from_html
\* finds on the page, title the title of the parsed feed.
subscribe_feed(cookie, url) ==
    /\ resp = Idle
    /\ UNCHANGED <<world, unlisted_column, txns>>
    /\ IF Falsy(cookie)
       THEN Reject("subscribe_feed", cookie, None, None, None,
                   HttpForbidden, "Token not found")
       ELSE IF Falsy(url)
       THEN Reject("subscribe_feed", cookie, cookie, None, None,
                   HttpBadRequest, "URL is required")
       ELSE IF Falsy(Hostname(url))
       THEN Reject("subscribe_feed", cookie, cookie, None, None,
                   HttpBadRequest, "Invalid URL")
       ELSE \E feed_url \in FeedUrls \cup {None} :
            IF Falsy(feed_url)
            THEN Reject("subscribe_feed", cookie, cookie, None, None,
                        HttpNotFound, "No feed found on the page")
            ELSE \E title \in FeedTitles(feed_url) :
                 IF Falsy(title)
                 THEN Reject("subscribe_feed", cookie, cookie, None, None,
                             HttpBadRequest, "Invalid feed")
                 ELSE IF FeedsByUrl(feed_url, cookie) # {}
                 THEN Reject("subscribe_feed", cookie, cookie, feed_url, None,
                             HttpBadRequest, "Feed already exists")
                 ELSE /\ feed_seq < MaxFeedSeq
                      /\ feed_seq' = feed_seq + 1
                      /\ feeds' = feeds \cup
                             {FeedRow(feed_seq + 1, feed_url, title, cookie)}
                      /\ resp' = Resp("subscribe_feed", cookie, cookie,
                                      feed_url, None, HttpOk, None, None)
                      /\ UNCHANGED <<articles, article_seq>>


(***************************************************************************)
(* Ingestion.                                                              *)
(***************************************************************************)
\* published_at of an entry: datetime(*entry.published_parsed[:6]) when the
\* entry has the attribute, None otherwise.
PublishedAt(entry) ==
    IF entry.published_parsed # NoTime THEN entry.published_parsed ELSE NoTime

\* Slicing a published_parsed that is present and None raises TypeError.
PublishedAtRaises(entry) == entry.published_parsed = NullTime

\* content of an entry: its description, or its title when it has none.
Content(entry) ==
    IF entry.description # None THEN entry.description ELSE entry.title

\* A turn of the loop raises before its INSERT: TypeError for the date, or
\* AttributeError on reading entry.title or entry.link of an entry that
\* lacks it.
EntryRaises(entry) ==
    PublishedAtRaises(entry) \/ entry.title = None \/ entry.link = None

\* Mutant: ON CONFLICT (url, token) DO UPDATE, the row is rewritten from
\* the entry and its flags fall back to the defaults.
InsertArticle_Upsert(rows, id, feed_id, entry, token) ==
    (rows \ ArticleConflicts(rows, entry.link, token))
        \cup {ArticleRow(id, feed_id, entry.title, entry.link,
                         Content(entry), PublishedAt(entry), token)}

\* Mutant: the conflict is per feed, ON CONFLICT (url, token, feed_id).
InsertArticle_PerFeed(rows, id, feed_id, entry, token) ==
    IF \E a \in ArticleConflicts(rows, entry.link, token) : a.feed_id = feed_id
    THEN rows
    ELSE rows \cup {ArticleRow(id, feed_id, entry.title, entry.link,
                               Content(entry), PublishedAt(entry), token)}

\* INSERT INTO articles_d4e5f6 (...) VALUES (..., FALSE)
\* ON CONFLICT (url, token) DO NOTHING
InsertArticle(rows, id, feed_id, entry, token) ==
    IF UndefinedColumn \/ ArticleConflicts(rows, entry.link, token) # {}
    THEN rows
    ELSE rows \cup {ArticleRow(id, feed_id, entry.title, entry.link,
                               Content(entry), PublishedAt(entry), token)}

\* The loop over feed.entries from entry i on: the rows of the open
\* transaction, the value of the id sequence (every INSERT that runs draws
\* one, also when it conflicts), and whether a turn raised: on the entry,
\* or at an INSERT that names a column the table lacks.
RECURSIVE MergeEntries(_, _, _, _, _, _)
MergeEntries(rows, seq, entries, i, feed_id, token) ==
    IF i > Len(entries)
    THEN [rows |-> rows, seq |-> seq, raised |-> FALSE]
    ELSE IF EntryRaises(entries[i]) \/ UndefinedColumn
    THEN [rows |-> rows, seq |-> seq, raised |-> TRUE]
    ELSE MergeEntries(InsertArticle(rows, seq + 1, feed_id, entries[i], token),
                      seq + 1, entries, i + 1, feed_id, token)

\* The body shared by update_feed and fetch_articles.  An exception in the
\* loop leaves the transaction uncommitted (Flask answers 500); the ids
\* drawn from the sequence are not given back.  The handler neither rolls
\* back nor closes the connection then: its uncommitted rows are gone for
\* every other connection, at the latest when the connection object is
\* collected; a request that has to wait for that is served after it.
Ingest(op, cookie, token, feed_id) ==
    /\ resp = Idle
    /\ UNCHANGED <<world, unlisted_column, txns>>
    /\ IF Falsy(token)
       THEN Reject(op, cookie, None, None, None,
                   HttpForbidden, "Token not found")
       ELSE IF FalsyId(feed_id)
       THEN Reject(op, cookie, token, feed_id, None,
                   HttpBadRequest, "Feed ID is required")
       ELSE IF FeedsById(feed_id, token) = {}
       THEN Reject(op, cookie, token, feed_id, None,
                   HttpNotFound, "Feed not found")
       ELSE \E f \in FeedsById(feed_id, token) :
            \E fetched \in Fetched(f.url) :
            LET r == MergeEntries(articles, article_seq, fetched.entries, 1,
                                  feed_id, token)
            IN /\ r.seq <= MaxArticleSeq
               /\ article_seq' = r.seq
               /\ articles' = IF r.raised THEN articles ELSE r.rows
               /\ resp' = IF r.raised
                          THEN Resp(op, cookie, token, feed_id, fetched,
                                    HttpServerError, "Internal Server Error",
                                    None)
                          ELSE Resp(op, cookie, token, feed_id, fetched,
                                    HttpOk, None, "success")
               /\ UNCHANGED <<feeds, feed_seq>>

\* POST /api/update_feed  (token from the cookie or the JSON body)
update_feed(cookie, jsontoken, feed_id) ==
    Ingest("update_feed", cookie, OrElse(cookie, jsontoken), feed_id)

\* POST /api/fetch_articles
fetch_articles(cookie, feed_id) ==
    Ingest("fetch_articles", cookie, cookie, feed_id)

(***************************************************************************)
(* Lifecycle operations.                                                   *)
(***************************************************************************)
\* Mutant: the UPDATE does not filter by token.
MarkReadRows_AnyToken(rows, article_id, token) ==
    { IF a.id = article_id
      THEN [a EXCEPT !.is_read = TRUE] ELSE a : a \in rows }

\* UPDATE articles_d4e5f6 SET is_read = TRUE WHERE id = %s AND token = %s
MarkReadRows(rows, article_id, token) ==
    { IF a.id = article_id /\ a.token = token
      THEN [a EXCEPT !.is_read = TRUE] ELSE a : a \in rows }

\* POST /api/mark_as_read
mark_as_read(cookie, article_id) ==
    /\ resp = Idle
    /\ UNCHANGED <<world, unlisted_column, txns>>
    /\ IF Falsy(cookie)
       THEN Reject("mark_as_read", cookie, None, None, None,
                   HttpForbidden, "Token not found")
       ELSE IF FalsyId(article_id)
       THEN Reject("mark_as_read", cookie, cookie, article_id, None,
                   HttpBadRequest, "Article ID is required")
       ELSE /\ articles' = MarkReadRows(articles, article_id, cookie)
            /\ resp' = Resp("mark_as_read", cookie, cookie, article_id, None,
                            HttpOk, None, "success")
            /\ UNCHANGED <<feeds, feed_seq, article_seq>>

\* UPDATE articles_d4e5f6 SET is_read = TRUE WHERE starred = TRUE AND token = %s
MarkStarredReadRows(rows, token) ==
    { IF a.starred /\ a.token = token
      THEN [a EXCEPT !.is_read = TRUE] ELSE a : a \in rows }

\* POST /api/mark_starred_as_read
mark_starred_as_read(cookie) ==
    /\ resp = Idle
    /\ UNCHANGED <<world, unlisted_column, txns>>
    /\ IF Falsy(cookie)
       THEN Reject("mark_starred_as_read", cookie, None, None, None,
                   HttpForbidden, "Token not found")
       ELSE /\ articles' = MarkStarredReadRows(articles, cookie)
            /\ resp' = Resp("mark_starred_as_read", cookie, cookie, None, None,
                            HttpOk, None, "success")
            /\ UNCHANGED <<feeds, feed_seq, article_seq>>

\* Mutant: starring does not mark the article read.
ToggleStarredRows_StarOnly(rows, article_id, new_starred, token) ==
    { IF a.id = article_id /\ a.token = token
      THEN [a EXCEPT !.starred = new_starred] ELSE a : a \in rows }

\* Mutant: the UPDATE sets is_read to the new starred value.
ToggleStarredRows_ReadFollows(rows, article_id, new_starred, token) ==
    { IF a.id = article_id /\ a.token = token
      THEN [a EXCEPT !.starred = new_starred, !.is_read = new_starred]
      ELSE a : a \in rows }

\* UPDATE articles_d4e5f6
\* SET starred = %s, is_read = CASE WHEN %s = TRUE THEN TRUE ELSE is_read END
\* WHERE id = %s AND token = %s
ToggleStarredRows(rows, article_id, new_starred, token) ==
    { IF a.id = article_id /\ a.token = token
      THEN [a EXCEPT !.starred = new_starred,
                     !.is_read = IF new_starred = TRUE THEN TRUE ELSE a.is_read]
      ELSE a : a \in rows }

\* POST /api/toggle_starred  (new_starred a JSON boolean)
toggle_starred(cookie, article_id, new_starred) ==
    /\ resp = Idle
    /\ UNCHANGED <<world, unlisted_column, txns>>
    /\ IF Falsy(cookie)
       THEN Reject("toggle_starred", cookie, None, None, None,
                   HttpForbidden, "Token not found")
       ELSE /\ articles' = ToggleStarredRows(articles, article_id, new_starred,
                                             cookie)
            /\ resp' = Resp("toggle_starred", cookie, cookie, article_id,
                            new_starred, HttpOk, None, "success")
            /\ UNCHANGED <<feeds, feed_seq, article_seq>>

\* Mutant: the purge also hides starred articles.
PurgeRows_Starred(rows, feed_id, token) ==
    { IF a.feed_id = feed_id /\ a.token = token
      THEN [a EXCEPT !.unlisted = TRUE] ELSE a : a \in rows }

\* Mutant: the purge deletes the rows instead of hiding them.
PurgeRows_Delete(rows, feed_id, token) ==
    { a \in rows : ~(a.feed_id = feed_id /\ a.token = token
                      /\ a.starred = FALSE) }

\* UPDATE articles_d4e5f6 SET unlisted = TRUE
\* WHERE feed_id = %s AND token = %s AND starred = FALSE
PurgeRows(rows, feed_id, token) ==
    IF UndefinedColumn THEN rows
    ELSE { IF a.feed_id = feed_id /\ a.token = token /\ a.starred = FALSE
           THEN [a EXCEPT !.unlisted = TRUE] ELSE a : a \in rows }

\* POST /api/purge_feed
purge_feed(cookie, feed_id) ==
    /\ resp = Idle
    /\ UNCHANGED <<world, unlisted_column, txns>>
    /\ IF Falsy(cookie)
       THEN Reject("purge_feed", cookie, None, None, None,
                   HttpForbidden, "Token not found")
       ELSE IF FalsyId(feed_id)
       THEN Reject("purge_feed", cookie, cookie, feed_id, None,
                   HttpBadRequest, "Feed ID is required")
       ELSE IF UndefinedColumn
       THEN Reject("purge_feed", cookie, cookie, feed_id, None,
                   HttpServerError, "Internal Server Error")
       ELSE /\ articles' = PurgeRows(articles, feed_id, cookie)
            /\ resp' = Resp("purge_feed", cookie, cookie, feed_id, None,
                            HttpOk, None, "success")
            /\ UNCHANGED <<feeds, feed_seq, article_seq>>

\* SELECT url FROM articles_d4e5f6 WHERE id = %s AND token = %s
ArticlesById(article_id, token) ==
    {a \in articles : a.id = article_id /\ a.token = token}

\* UPDATE articles_d4e5f6 SET content = %s WHERE id = %s AND token = %s
SetContentRows(rows, article_id, content, token) ==
    { IF a.id = article_id /\ a.token = token
      THEN [a EXCEPT !.content = content] ELSE a : a \in rows }

\* POST /api/fetch_full_content; full_content is what fetch_full_content
\* scrapes from the article's URL (None on any error).
api_fetch_full_content(cookie, article_id) ==
    /\ resp = Idle
    /\ UNCHANGED <<world, unlisted_column, txns>>
    /\ IF Falsy(cookie)
       THEN Reject("api_fetch_full_content", cookie, None, None, None,
                   HttpForbidden, "Token not found")
       ELSE IF FalsyId(article_id)
       THEN Reject("api_fetch_full_content", cookie, cookie, article_id, None,
                   HttpBadRequest, "Article ID is required")
       ELSE IF ArticlesById(article_id, cookie) = {}
       THEN Reject("api_fetch_full_content", cookie, cookie, article_id, None,
                   HttpNotFound, "Article not found")
       ELSE \E a \in ArticlesById(article_id, cookie) :
            \E full_content \in Scraped(a.url) :
            /\ articles' = IF Falsy(full_content)
                           THEN articles
                           ELSE SetContentRows(articles, article_id,
                                               full_content, cookie)
            /\ resp' = Resp("api_fetch_full_content", cookie, cookie,
                            article_id, None, HttpOk, None, full_content)
            /\ UNCHANGED <<feeds, feed_seq, article_seq>>

(***************************************************************************)
(* Queries.                                                                *)
(***************************************************************************)
\* The sequences a SELECT ... ORDER BY can return for the row set S:
\* every arrangement of S in which no row is placed after a row it sorts
\* strictly before (rows that compare equal come in any order).
Orderings(S, Before(_, _)) ==
    { s \in [1..Cardinality(S) -> S] :
        /\ \A i, j \in 1..Cardinality(S) : i # j => s[i] # s[j]
        /\ \A i, j \in 1..Cardinality(S) : i < j => ~Before(s[j], s[i]) }

\* Mutant: the subqueries do not look at unlisted.
UnreadOf_Unlisted(f) ==
    { a \in articles : /\ a.feed_id = f.id
                       /\ a.is_read = FALSE
                       /\ a.token = f.token }

\* The predicate of both subqueries of load_feeds:
\* feed_id = f.id AND is_read = FALSE AND token = f.token AND unlisted = FALSE
UnreadOf(f) ==
    { a \in articles : /\ a.feed_id = f.id
                       /\ a.is_read = FALSE
                       /\ a.token = f.token
                       /\ a.unlisted = FALSE }

\* The rows selected by load_feeds for a token.
LoadFeedsRows(token) ==
    { [id |-> f.id, url |-> f.url, title |-> f.title,
       unread_count |-> Cardinality(UnreadOf(f))] :
        f \in {g \in feeds : g.token = token /\ UnreadOf(g) # {}} }

\* ORDER BY unread_count DESC
FeedBefore(x, y) == x.unread_count > y.unread_count

\* GET /api/load_feeds
load_feeds(cookie) ==
    /\ resp = Idle
    /\ UNCHANGED <<world, unlisted_column, txns>>
    /\ IF Falsy(cookie)
       THEN Reject("load_feeds", cookie, None, None, None,
                   HttpForbidden, "Token not found")
       ELSE IF UndefinedColumn
       THEN Reject("load_feeds", cookie, cookie, None, None,
                   HttpServerError, "Internal Server Error")
       ELSE /\ \E body \in Orderings(LoadFeedsRows(cookie), FeedBefore) :
                 resp' = Resp("load_feeds", cookie, cookie, None, None,
                              HttpOk, None, body)
            /\ UNCHANGED <<feeds, articles, feed_seq, article_seq>>

\* The CASE of load_articles' ORDER BY.
Bucket(a) ==
    IF a.is_read = FALSE THEN 0
    ELSE IF a.is_read = TRUE /\ a.starred = FALSE THEN 1
    ELSE 2

\* published_at DESC: PostgreSQL sorts NULL as larger than every value, so
\* a descending sort puts rows without a timestamp first.
TimeBefore(x, y) ==
    \/ x = NoTime /\ y # NoTime
    \/ x # NoTime /\ y # NoTime /\ x[1] > y[1]

\* ORDER BY CASE ... END, a.published_at DESC
ArticleBefore(x, y) ==
    \/ Bucket(x) < Bucket(y)
    \/ Bucket(x) = Bucket(y) /\ TimeBefore(x.published_at, y.published_at)

\* Mutant: the WHERE clause keeps only unlisted = FALSE.
LoadArticlesRows_ListedOnly(feed_id, token) ==
    { [id |-> j[1].id, title |-> j[1].title, url |-> j[1].url,
       content |-> j[1].content, published_at |-> j[1].published_at,
       is_read |-> j[1].is_read, starred |-> j[1].starred,
       feed_url |-> j[2].url] :
        j \in { p \in articles \X feeds :
                  /\ p[1].feed_id = p[2].id
                  /\ p[1].feed_id = feed_id
                  /\ p[1].token = token
                  /\ p[1].unlisted = FALSE } }

\* The rows selected by load_articles: articles joined to their feed,
\* WHERE a.feed_id = %s AND a.token = %s
\*   AND (a.starred = TRUE OR a.unlisted = FALSE)
\* published_at stands for its isoformat() in the response (null when absent).
LoadArticlesRows(feed_id, token) ==
    { [id |-> j[1].id, title |-> j[1].title, url |-> j[1].url,
       content |-> j[1].content, published_at |-> j[1].published_at,
       is_read |-> j[1].is_read, starred |-> j[1].starred,
       feed_url |-> j[2].url] :
        j \in { p \in articles \X feeds :
                  /\ p[1].feed_id = p[2].id
                  /\ p[1].feed_id = feed_id
                  /\ p[1].token = token
                  /\ (p[1].starred = TRUE \/ p[1].unlisted = FALSE) } }

\* GET /api/load_articles
load_articles(cookie, feed_id) ==
    /\ resp = Idle
    /\ UNCHANGED <<world, unlisted_column, txns>>
    /\ IF Falsy(cookie)
       THEN Reject("load_articles", cookie, None, None, None,
                   HttpForbidden, "Token not found")
       ELSE IF FalsyArg(feed_id)
       THEN Reject("load_articles", cookie, cookie, feed_id, None,
                   HttpBadRequest, "Feed ID is required")
       ELSE IF UndefinedColumn \/ feed_id = NotANumber
       \* except psycopg2.Error: the column is undefined, or the text
       \* compared with a.feed_id is not an integer
       THEN Reject("load_articles", cookie, cookie, feed_id, None,
                   HttpServerError, "Database error")
       ELSE /\ \E body \in Orderings(LoadArticlesRows(feed_id, cookie),
                                     ArticleBefore) :
                 resp' = Resp("load_articles", cookie, cookie, feed_id, None,
                              HttpOk, None, body)
            /\ UNCHANGED <<feeds, articles, feed_seq, article_seq>>

\* Mutant: the starred list leaves out unlisted articles.
LoadStarredRows_Listed(token) ==
    { [id |-> j[1].id, title |-> j[1].title, url |-> j[1].url,
       content |-> j[1].content, published_at |-> j[1].published_at,
       feed_url |-> j[2].url] :
        j \in { p \in articles \X feeds :
                  /\ p[1].feed_id = p[2].id
                  /\ p[1].starred = TRUE
                  /\ p[1].unlisted = FALSE
                  /\ p[1].token = token } }

\* The rows selected by load_starred_articles:
\* WHERE a.starred = TRUE AND a.token = %s
LoadStarredRows(token) ==
    { [id |-> j[1].id, title |-> j[1].title, url |-> j[1].url,
       content |-> j[1].content, published_at |-> j[1].published_at,
       feed_url |-> j[2].url] :
        j \in { p \in articles \X feeds :
                  /\ p[1].feed_id = p[2].id
                  /\ p[1].starred = TRUE
                  /\ p[1].token = token } }

\* ORDER BY a.published_at DESC
StarredBefore(x, y) == TimeBefore(x.published_at, y.published_at)

\* GET /api/load_starred_articles
load_starred_articles(cookie) ==
    /\ resp = Idle
    /\ UNCHANGED <<world, unlisted_column, txns>>
    /\ IF Falsy(cookie)
       THEN Reject("load_starred_articles", cookie, None, None, None,
                   HttpForbidden, "Token not found")
       ELSE /\ \E body \in Orderings(LoadStarredRows(cookie), StarredBefore) :
                 resp' = Resp("load_starred_articles", cookie, cookie, None,
                              None, HttpOk, None, body)
            /\ UNCHANGED <<feeds, articles, feed_seq, article_seq>>

(***************************************************************************)
(* The server.                                                             *)
(***************************************************************************)
\* The response is sent; the next request can be served.
Respond ==
    /\ resp # Idle
    /\ resp' = Idle
    /\ UNCHANGED <<world, unlisted_column, txns>>
    /\ UNCHANGED <<feeds, articles, feed_seq, article_seq>>

\* Cookies and tokens of a request.
TokenInputs == Tokens \cup {None}

\* Feed ids of a request: falsy, the ids issued so far, one never issued.
FeedIdInputs == 0..(feed_seq + 1)

\* The feed_id of a query string.
FeedIdArgs == {MissingArg, NotANumber} \cup FeedIdInputs

\* Article ids of a request: falsy, the ids of stored rows, one never issued.
ArticleIdInputs == {0, article_seq + 1} \cup {a.id : a \in articles}

Next ==
    \/ \E argtoken \in TokenInputs, cookie \in TokenInputs,
          feed_url \in FeedUrls \cup {None} :
            index(argtoken, cookie, feed_url)
    \/ \E cookie \in TokenInputs, feed_url \in FeedUrls \cup {None} :
            add_feed(cookie, feed_url)
    \/ \E cookie \in TokenInputs, url \in PageUrls :
            subscribe_feed(cookie, url)
    \/ \E cookie \in TokenInputs, jsontoken \in TokenInputs,
          feed_id \in FeedIdInputs :
            update_feed(cookie, jsontoken, feed_id)
    \/ \E cookie \in TokenInputs, feed_id \in FeedIdInputs :
            fetch_articles(cookie, feed_id)
    \/ \E cookie \in TokenInputs : load_feeds(cookie)
    \/ \E cookie \in TokenInputs, feed_id \in FeedIdArgs :
            load_articles(cookie, feed_id)
    \/ \E cookie \in TokenInputs, article_id \in ArticleIdInputs :
            api_fetch_full_content(cookie, article_id)
    \/ \E cookie \in TokenInputs, article_id \in ArticleIdInputs :
            mark_as_read(cookie, article_id)
    \/ \E cookie \in TokenInputs : mark_starred_as_read(cookie)
    \/ \E cookie \in TokenInputs, article_id \in ArticleIdInputs,
          new_starred \in BOOLEAN :
            toggle_starred(cookie, article_id, new_starred)
    \/ \E cookie \in TokenInputs : load_starred_articles(cookie)
    \/ \E cookie \in TokenInputs, feed_id \in FeedIdInputs :
            purge_feed(cookie, feed_id)
    \/ Respond

Spec == Init /\ [][Next]_vars

(***************************************************************************)
(* Two requests at once (app.run serves each request in its own thread, on *)
(* its own connection).  PostgreSQL runs each transaction READ COMMITTED:  *)
(* a statement reads the committed rows; an INSERT forms its row, nextval  *)
(* included, before it looks at the unique index; an INSERT that meets an  *)
(* uncommitted row with its unique key, and an UPDATE that meets a row     *)
(* version another transaction wrote, wait for that transaction to end;    *)
(* an UPDATE writes a new version of the whole row, built from the latest  *)
(* committed one.  A step is one statement that does not wait, and a       *)
(* response is handed to its client (Respond) as soon as it is made.       *)
(* A handler with a single SELECT is one step, the same as in Spec.        *)
(* Requests rejected before get_db_connection() open no transaction; those *)
(* of the writing handlers are part of Spec only.                          *)
(***************************************************************************)
\* The row versions written by the open transactions of other connections.
OtherWritten(c) == UNION {txns[d].written : d \in Conns \ {c}}

\* Those of feeds_a1b2c3 and those of articles_d4e5f6.
OtherFeeds(c) == {w \in OtherWritten(c) : "feed_id" \notin DOMAIN w}

OtherArticles(c) == {w \in OtherWritten(c) : "feed_id" \in DOMAIN w}

\* The request takes connection c: psycopg2.connect gives every request a
\* connection of its own; the connections being alike, the first free one.
Opens(c) ==
    /\ resp = Idle
    /\ txns[c].pc = "idle"
    /\ c = "c2" => txns["c1"].pc # "idle"

\* The entries for which an open ingest has still to draw an id.
Remaining(c) ==
    IF txns[c].pc = "entries" THEN Len(txns[c].val.entries) - txns[c].i + 1
    ELSE IF txns[c].pc = "insert_article"
    THEN Len(txns[c].val.entries) - txns[c].i
    ELSE 0

\* The ids the open transactions of other connections will still draw.
ReservedArticleIds(c) ==
    LET d == CHOOSE x \in Conns : x # c IN Remaining(d)

ReservedFeedIds(c) ==
    Cardinality({d \in Conns \ {c} : txns[d].pc = "feed_row"})

\* The response a connection's handler returns; the connection is closed.
Finish(c, status, error, body) ==
    /\ resp' = Resp(txns[c].op, txns[c].token, txns[c].token, txns[c].arg,
                    txns[c].val, status, error, body)
    /\ txns' = [txns EXCEPT ![c] = NoTxn]

\* An exception leaves the handler before cur.close() and conn.close(), and
\* nothing rolls back: Flask answers 500, and the transaction stays open,
\* with the row versions it wrote, until the connection object is collected.
Abandon(c) ==
    /\ resp' = Resp(txns[c].op, txns[c].token, txns[c].token, txns[c].arg,
                    txns[c].val, HttpServerError, "Internal Server Error",
                    None)
    /\ txns' = [txns EXCEPT ![c] = [txns[c] EXCEPT !.pc = "abandoned"]]

\* The connection object of an abandoned transaction is collected: the
\* connection closes and PostgreSQL rolls the transaction back.
collect(c) ==
    /\ resp = Idle
    /\ txns[c].pc = "abandoned"
    /\ txns' = [txns EXCEPT ![c] = NoTxn]
    /\ UNCHANGED <<world, unlisted_column, feeds, articles, feed_seq,
                   article_seq, resp>>

\* index (with a feed_url) and subscribe_feed up to their SELECT: the pair is
\* stored (subscribe_feed answers 400, index renders the page), or the
\* handler goes on to its INSERT.
subscribe_select(c, op, token, feed_url) ==
    /\ Opens(c)
    /\ UNCHANGED <<world, unlisted_column, feeds, articles, feed_seq,
                   article_seq>>
    /\ \E title \in FeedTitles(feed_url) :
        /\ op = "subscribe_feed" => ~Falsy(title)
        /\ IF FeedsByUrl(feed_url, token) # {}
           THEN /\ resp' = Resp(op, token, token, feed_url, None,
                                IF op = "index" THEN HttpOk
                                                 ELSE HttpBadRequest,
                                IF op = "index" THEN None
                                                 ELSE "Feed already exists",
                                None)
                /\ UNCHANGED txns
           ELSE /\ feed_seq + ReservedFeedIds(c) < MaxFeedSeq
                /\ txns' = [txns EXCEPT ![c] =
                               Txn(op, "feed_row", token, feed_url,
                                   TitleOrDefault(title), 0, 0, {})]
                /\ UNCHANGED resp

\* add_feed up to its INSERT: the feed is parsed and the connection opened;
\* there is no SELECT.
add_feed_request(c, token, feed_url) ==
    /\ Opens(c)
    /\ feed_seq + ReservedFeedIds(c) < MaxFeedSeq
    /\ \E title \in FeedTitles(feed_url) :
          txns' = [txns EXCEPT ![c] =
                      Txn("add_feed", "feed_row", token, feed_url,
                          TitleOrDefault(title), 0, 0, {})]
    /\ UNCHANGED <<world, unlisted_column, feeds, articles, feed_seq,
                   article_seq, resp>>

\* The INSERT into feeds_a1b2c3 forms its row: nextval of the id sequence is
\* drawn before the unique index is looked at.
feed_row(c) ==
    /\ resp = Idle
    /\ txns[c].pc = "feed_row"
    /\ feed_seq' = feed_seq + 1
    /\ txns' = [txns EXCEPT ![c] =
                   [txns[c] EXCEPT !.pc = "insert_feed", !.id = feed_seq + 1]]
    /\ UNCHANGED <<world, unlisted_column, feeds, articles, article_seq,
                   resp>>

\* The unique index of feeds_a1b2c3 holds the key (url, token) in a row of
\* `rows`.
FeedKeyTaken(rows, url, token) ==
    \E f \in rows : f.url = url /\ f.token = token

\* The INSERT into feeds_a1b2c3 at the unique index.  add_feed catches the
\* unique violation and closes the connection; index and subscribe_feed do
\* not catch it: Flask answers 500 and nothing is committed.
insert_feed(c) ==
    LET t == txns[c] IN
    /\ resp = Idle
    /\ t.pc = "insert_feed"
    /\ ~FeedKeyTaken(OtherFeeds(c), t.arg, t.token)
    /\ UNCHANGED <<world, unlisted_column, feeds, articles, feed_seq,
                   article_seq>>
    /\ IF FeedKeyTaken(feeds, t.arg, t.token)
       THEN IF t.op = "add_feed"
            THEN LET e == UniqueViolationText(FeedUniqueConstraint, t.arg,
                                              t.token)
                 IN Finish(c, AddFeedError(e).status, AddFeedError(e).error,
                           None)
            ELSE Abandon(c)
       ELSE /\ txns' = [txns EXCEPT ![c] =
                           [t EXCEPT !.pc = "commit",
                                     !.written = {FeedRow(t.id, t.arg, t.val,
                                                          t.token)}]]
            /\ UNCHANGED resp

\* conn.commit() of index, subscribe_feed and add_feed.
commit_feed(c) ==
    /\ resp = Idle
    /\ txns[c].pc = "commit"
    /\ txns[c].op \in {"index", "subscribe_feed", "add_feed"}
    /\ feeds' = feeds \cup txns[c].written
    /\ Finish(c, HttpOk, None,
              IF txns[c].op = "add_feed" THEN txns[c].val ELSE None)
    /\ UNCHANGED <<world, unlisted_column, articles, feed_seq, article_seq>>

\* update_feed and fetch_articles up to feedparser.parse: the SELECT of the
\* feed's URL, then the fetch.
ingest_select(c, op, token, feed_id) ==
    /\ Opens(c)
    /\ UNCHANGED <<world, unlisted_column, feeds, articles, feed_seq,
                   article_seq>>
    /\ IF FeedsById(feed_id, token) = {}
       THEN /\ resp' = Resp(op, token, token, feed_id, None,
                            HttpNotFound, "Feed not found", None)
            /\ UNCHANGED txns
       ELSE \E f \in FeedsById(feed_id, token) :
            \E fetched \in Fetched(f.url) :
            /\ article_seq + ReservedArticleIds(c) + Len(fetched.entries)
                   <= MaxArticleSeq
            /\ txns' = [txns EXCEPT ![c] =
                           Txn(op, IF fetched.entries = <<>> THEN "commit"
                                                             ELSE "entries",
                               token, feed_id, fetched, 1, 0, {})]
            /\ UNCHANGED resp

\* One turn of the loop over feed.entries up to the row of its INSERT: the
\* exception of the entry, or of an INSERT that names a column the table
\* lacks, ends the handler without a commit; otherwise the row is formed
\* and nextval of the id sequence drawn, before the unique index is looked
\* at.
article_row(c) ==
    LET t == txns[c]
        entry == t.val.entries[t.i]
    IN
    /\ resp = Idle
    /\ t.pc = "entries"
    /\ UNCHANGED <<world, unlisted_column, feeds, articles, feed_seq>>
    /\ IF EntryRaises(entry) \/ UndefinedColumn
       THEN /\ Abandon(c)
            /\ UNCHANGED article_seq
       ELSE /\ article_seq' = article_seq + 1
            /\ txns' = [txns EXCEPT ![c] =
                  [t EXCEPT !.pc = "insert_article", !.id = article_seq + 1]]
            /\ UNCHANGED resp

\* Mutant: articles_d4e5f6 has no unique index, an INSERT never waits.
ArticleKeyTaken_NoIndex(rows, url, token) == FALSE

\* The unique index of articles_d4e5f6 holds the key (url, token) in a row
\* of `rows`.
ArticleKeyTaken(rows, url, token) == ArticleConflicts(rows, url, token) # {}

\* The INSERT ... ON CONFLICT DO NOTHING of entry i at the unique index: it
\* waits while another open transaction holds the key, then inserts the row
\* it formed or, if the key is stored, does nothing.
insert_article(c) ==
    LET t == txns[c]
        entry == t.val.entries[t.i]
    IN
    /\ resp = Idle
    /\ t.pc = "insert_article"
    /\ ~ArticleKeyTaken(OtherArticles(c), entry.link, t.token)
    /\ txns' = [txns EXCEPT ![c] =
          [t EXCEPT
             !.pc = IF t.i = Len(t.val.entries) THEN "commit" ELSE "entries",
             !.i = t.i + 1,
             !.written =
                InsertArticle(articles \cup t.written, t.id, t.arg, entry,
                              t.token) \ articles]]
    /\ UNCHANGED <<world, unlisted_column, feeds, articles, feed_seq,
                   article_seq, resp>>

\* mark_as_read, mark_starred_as_read, toggle_starred and purge_feed: the
\* request has opened its connection.  id is the article or feed of the
\* request (None for mark_starred_as_read), val the new starred value.
update_request(c, op, token, id, val) ==
    /\ Opens(c)
    /\ txns' = [txns EXCEPT ![c] = Txn(op, "update", token, id, val, 0, 0, {})]
    /\ UNCHANGED <<world, unlisted_column, feeds, articles, feed_seq,
                   article_seq, resp>>

\* api_fetch_full_content up to the return of fetch_full_content: the SELECT
\* of the article's URL, then the scrape, which takes up to the timeout of
\* requests.get.  Without a row the handler answers 404, without content it
\* answers with null; either way it has written nothing.
fetch_select(c, token, article_id) ==
    /\ Opens(c)
    /\ UNCHANGED <<world, unlisted_column, feeds, articles, feed_seq,
                   article_seq>>
    /\ IF ArticlesById(article_id, token) = {}
       THEN /\ resp' = Resp("api_fetch_full_content", token, token,
                            article_id, None, HttpNotFound,
                            "Article not found", None)
            /\ UNCHANGED txns
       ELSE \E a \in ArticlesById(article_id, token) :
            \E full_content \in Scraped(a.url) :
            IF Falsy(full_content)
            THEN /\ resp' = Resp("api_fetch_full_content", token, token,
                                 article_id, None, HttpOk, None, full_content)
                 /\ UNCHANGED txns
            ELSE /\ txns' = [txns EXCEPT ![c] =
                                Txn("api_fetch_full_content", "update", token,
                                    article_id, full_content, 0, 0, {})]
                 /\ UNCHANGED resp

\* Mutant: an UPDATE takes no row lock.
RowLocked_NoLock(c, rows) == FALSE

\* A row of `rows` has a version written by the open transaction of another
\* connection: that transaction holds the row's lock until it ends.
RowLocked(c, rows) ==
    \E a \in rows : \E w \in OtherArticles(c) : w.id = a.id

\* The rows the UPDATE of the transaction matches among the committed ones.
UpdateTargets(t) ==
    IF t.op = "purge_feed"
    THEN {a \in articles :
             a.feed_id = t.arg /\ a.token = t.token /\ a.starred = FALSE}
    ELSE IF t.op = "mark_starred_as_read"
    THEN {a \in articles : a.starred = TRUE /\ a.token = t.token}
    ELSE {a \in articles : a.id = t.arg /\ a.token = t.token}

\* The row versions the UPDATE of the transaction writes for `rows`.
UpdatedRows(t, rows) ==
    IF t.op = "mark_as_read" THEN MarkReadRows(rows, t.arg, t.token)
    ELSE IF t.op = "mark_starred_as_read"
    THEN MarkStarredReadRows(rows, t.token)
    ELSE IF t.op = "toggle_starred"
    THEN ToggleStarredRows(rows, t.arg, t.val, t.token)
    ELSE IF t.op = "purge_feed" THEN PurgeRows(rows, t.arg, t.token)
    ELSE SetContentRows(rows, t.arg, t.val, t.token)

\* The UPDATE statement of mark_as_read, mark_starred_as_read,
\* toggle_starred, purge_feed and api_fetch_full_content.
update_articles(c) ==
    LET t == txns[c] IN
    /\ resp = Idle
    /\ t.pc = "update"
    /\ UNCHANGED <<world, unlisted_column, feeds, articles, feed_seq,
                   article_seq>>
    /\ IF t.op = "purge_feed" /\ UndefinedColumn
       THEN Abandon(c)
       ELSE /\ ~RowLocked(c, UpdateTargets(t))
            /\ txns' = [txns EXCEPT ![c] =
                  [t EXCEPT !.pc = "commit",
                            !.written = UpdatedRows(t, UpdateTargets(t))]]
            /\ UNCHANGED resp

\* The committed rows once the row versions of a transaction are committed.
Committed(rows, written) ==
    {a \in rows : \A w \in written : w.id # a.id} \cup written

\* conn.commit() of update_feed, fetch_articles and the handlers with an
\* UPDATE.
commit_articles(c) ==
    /\ resp = Idle
    /\ txns[c].pc = "commit"
    /\ txns[c].op \notin {"index", "subscribe_feed", "add_feed"}
    /\ articles' = Committed(articles, txns[c].written)
    /\ Finish(c, HttpOk, None,
              IF txns[c].op = "api_fetch_full_content" THEN txns[c].val
              ELSE "success")
    /\ UNCHANGED <<world, unlisted_column, feeds, feed_seq, article_seq>>

ConcurrentNext ==
    \/ \E c \in Conns, op \in {"index", "subscribe_feed"}, token \in Tokens,
          feed_url \in FeedUrls :
            subscribe_select(c, op, token, feed_url)
    \/ \E c \in Conns, token \in Tokens, feed_url \in FeedUrls :
            add_feed_request(c, token, feed_url)
    \/ \E c \in Conns : feed_row(c)
    \/ \E c \in Conns : insert_feed(c)
    \/ \E c \in Conns : commit_feed(c)
    \/ \E c \in Conns, op \in {"update_feed", "fetch_articles"},
          token \in Tokens, feed_id \in {f.id : f \in feeds} :
            ingest_select(c, op, token, feed_id)
    \/ \E c \in Conns : article_row(c)
    \/ \E c \in Conns : insert_article(c)
    \/ \E c \in Conns, token \in Tokens, id \in {a.id : a \in articles} :
            update_request(c, "mark_as_read", token, id, None)
    \/ \E c \in Conns, token \in Tokens :
            update_request(c, "mark_starred_as_read", token, None, None)
    \/ \E c \in Conns, token \in Tokens, id \in {a.id : a \in articles},
          new_starred \in BOOLEAN :
            update_request(c, "toggle_starred", token, id, new_starred)
    \/ \E c \in Conns, token \in Tokens, id \in {f.id : f \in feeds} :
            update_request(c, "purge_feed", token, id, None)
    \/ \E c \in Conns, token \in Tokens, id \in ArticleIdInputs \ {0} :
            fetch_select(c, token, id)
    \/ \E c \in Conns : update_articles(c)
    \/ \E c \in Conns : commit_articles(c)
    \/ \E c \in Conns : collect(c)
    \/ \E cookie \in Tokens : load_feeds(cookie)
    \/ \E cookie \in Tokens, feed_id \in {f.id : f \in feeds} :
            load_articles(cookie, feed_id)
    \/ \E cookie \in Tokens : load_starred_articles(cookie)
    \/ Respond

\* The two requests come from one browser, in the environments with one
\* article URL: an entry list that repeats it, two feeds that both carry it.
ConcurrentInit == Init /\ world \in {"one", "pair"}

ConcurrentSpec == ConcurrentInit /\ [][ConcurrentNext]_vars

(***************************************************************************)
(* Properties.                                                             *)
(***************************************************************************)
IngestOps == {"update_feed", "fetch_articles"}

SubscribeOps == {"index", "add_feed", "subscribe_feed"}

\* A handler has just answered with success.
Answered(op) == resp.op = op /\ resp.status = HttpOk

\* The ids of the rows of a response body.
BodyIds(body) == {body[i].id : i \in DOMAIN body}

\* The stored articles of a feed of a token.
ArticlesOf(rows, feed_id, token) ==
    {a \in rows : a.feed_id = feed_id /\ a.token = token}

\* C1: ingestion is idempotent.  In every state reached by a successful
\* ingest of a feed, running the same ingest again on the same entry list
\* raises nothing and commits exactly the rows that are already stored (same
\* set of articles, same flags, content and feed id on every row).
C1_IngestIdempotent ==
    (resp.op \in IngestOps /\ resp.status = HttpOk) =>
        LET again == MergeEntries(articles, article_seq, resp.val.entries, 1,
                                  resp.arg, resp.token)
        IN ~again.raised /\ again.rows = articles

\* C1 witness: an ingest of a non-empty entry list has answered and inserted
\* nothing, because every entry was already stored for that feed by an
\* earlier run.
C1_Witness ==
    /\ resp.op \in IngestOps /\ resp.status = HttpOk
    /\ Len(resp.val.entries) > 0
    /\ \A a \in articles : a.id <= article_seq - Len(resp.val.entries)
    /\ \A i \in 1..Len(resp.val.entries) :
          \E a \in ArticlesOf(articles, resp.arg, resp.token) :
              a.url = resp.val.entries[i].link

\* C2: ingestion only adds rows.  Every article stored before an ingest
\* request is stored unchanged (all fields, flags included) after it,
\* whatever the feed returns for its URL.
C2_IngestOnlyAdds ==
    [][resp'.op \in IngestOps => articles \subseteq articles']_vars

\* C2 witness: a successful ingest whose entry list carries the URL of a
\* stored article under another title, the article being read or unlisted.
C2_Witness ==
    /\ resp.op \in IngestOps /\ resp.status = HttpOk
    /\ \E i \in 1..Len(resp.val.entries) : \E a \in articles :
          /\ a.url = resp.val.entries[i].link
          /\ a.token = resp.token
          /\ a.title # resp.val.entries[i].title
          /\ (a.unlisted \/ a.is_read)

\* The response body holds no row of token t2.
NoRowOf(t2, r) ==
    IF r.status # HttpOk THEN TRUE
    ELSE IF r.op = "load_feeds"
    THEN BodyIds(r.body) \cap {f.id : f \in {g \in feeds : g.token = t2}} = {}
    ELSE IF r.op \in {"load_articles", "load_starred_articles"}
    THEN BodyIds(r.body) \cap {a.id : a \in {b \in articles : b.token = t2}} = {}
    ELSE TRUE

\* C3: tenant isolation.  A request served under one token leaves every feed
\* and article of every other token unchanged, and its response holds no row
\* of another token, whatever feed id or article id it names.
C3_TenantIsolation ==
    [][resp'.op # "idle" =>
          \A t2 \in Tokens : t2 # resp'.token =>
              /\ {f \in feeds' : f.token = t2} = {f \in feeds : f.token = t2}
              /\ {a \in articles' : a.token = t2}
                     = {a \in articles : a.token = t2}
              /\ NoRowOf(t2, resp')]_vars

\* C3 witness: T1 has asked to mark read an article of T2 that is unread.
C3_Witness ==
    /\ Answered("mark_as_read") /\ resp.token = "T1"
    /\ \E a \in articles :
          a.token = "T2" /\ a.id = resp.arg /\ a.is_read = FALSE

\* C4: toggleStarred(token, A, v) sets A.starred to v and A.is_read to
\* (A.is_read or v); A's other fields and all other articles are unchanged.
C4_ToggleStarred ==
    [][(resp'.op = "toggle_starred" /\ resp'.status = HttpOk) =>
          articles' =
              { IF a.id = resp'.arg /\ a.token = resp'.token
                THEN [a EXCEPT !.starred = resp'.val,
                               !.is_read = (a.is_read \/ resp'.val)]
                ELSE a : a \in articles }]_vars

\* C4 witness: an article of the token has just been starred, next to
\* another article that is still unread.
C4_Witness ==
    /\ Answered("toggle_starred") /\ resp.val = TRUE
    /\ \E a \in articles :
          a.id = resp.arg /\ a.token = resp.token /\ a.starred /\ a.is_read
    /\ \E b \in articles : b.id # resp.arg /\ ~b.is_read

\* C5 as stated: right after purge(token, feed), every starred article of
\* the feed has unlisted = FALSE and every unstarred one unlisted = TRUE.
C5_Original ==
    Answered("purge_feed") =>
        \A a \in ArticlesOf(articles, resp.arg, resp.token) :
            /\ a.starred => ~a.unlisted
            /\ ~a.starred => a.unlisted

\* C5 amended: purge(token, feed) sets unlisted on every unstarred article of
\* the feed and leaves every other row, the starred articles of the feed
\* included, exactly as it was; so right after it every unstarred article of
\* the feed is unlisted and a starred one is unlisted only if it was before.
C5_PurgeExemptsStarred ==
    [][(resp'.op = "purge_feed" /\ resp'.status = HttpOk) =>
          /\ articles' =
                { IF a.feed_id = resp'.arg /\ a.token = resp'.token
                     /\ ~a.starred
                  THEN [a EXCEPT !.unlisted = TRUE] ELSE a : a \in articles }
          /\ \A a \in ArticlesOf(articles', resp'.arg, resp'.token) :
                /\ ~a.starred => a.unlisted
                /\ (a.starred /\ a.unlisted) => a \in articles]_vars

\* C5 witness: right after a purge the feed holds a starred article that is
\* listed and an unstarred one that is unlisted.
C5_Witness ==
    /\ Answered("purge_feed")
    /\ \E a, b \in ArticlesOf(articles, resp.arg, resp.token) :
          a.starred /\ ~a.unlisted /\ ~b.starred /\ b.unlisted

\* C6 as stated: in every reachable state a listArticles request that
\* carries a token and a feed id returns, once each, exactly the articles of
\* that feed and token with starred = TRUE or unlisted = FALSE.
C6_Original ==
    (resp.op = "load_articles" /\ ~Falsy(resp.cookie) /\ resp.arg >= 0) =>
        /\ resp.status = HttpOk
        /\ BodyIds(resp.body) =
              {a.id : a \in {b \in ArticlesOf(articles, resp.arg, resp.token) :
                                b.starred \/ ~b.unlisted}}

\* C6, the part that holds: whenever listArticles answers with a list, the
\* list holds, once each, exactly the articles of that feed and token with
\* starred = TRUE or unlisted = FALSE.
C6_VisibilityFilter ==
    Answered("load_articles") =>
        /\ BodyIds(resp.body) =
              {a.id : a \in {b \in ArticlesOf(articles, resp.arg, resp.token) :
                                b.starred \/ ~b.unlisted}}
        /\ \A i, j \in DOMAIN resp.body :
              resp.body[i].id = resp.body[j].id => i = j

\* C6 witness: a listing of a feed that holds a starred unlisted article
\* (returned) and an unstarred unlisted one (left out).
C6_Witness ==
    /\ Answered("load_articles")
    /\ \E a, b \in ArticlesOf(articles, resp.arg, resp.token) :
          /\ a.starred /\ a.unlisted /\ a.id \in BodyIds(resp.body)
          /\ ~b.starred /\ b.unlisted /\ b.id \notin BodyIds(resp.body)

\* The three groups of C7: unread, read and unstarred, starred.
C7_Group(r) == IF ~r.is_read THEN 0 ELSE IF ~r.starred THEN 1 ELSE 2

\* Descending published time with absent times last.
C7_NullsLastBefore(x, y) ==
    \/ x # NoTime /\ y = NoTime
    \/ x # NoTime /\ y # NoTime /\ x[1] > y[1]

\* C7 as stated: listArticles returns unread articles, then read unstarred
\* ones, then starred ones; each group by descending published time, the
\* articles without a published time last in their group.
C7_Original ==
    Answered("load_articles") =>
        \A i, j \in DOMAIN resp.body : i < j =>
            /\ C7_Group(resp.body[i]) <= C7_Group(resp.body[j])
            /\ C7_Group(resp.body[i]) = C7_Group(resp.body[j]) =>
                  ~C7_NullsLastBefore(resp.body[j].published_at,
                                      resp.body[i].published_at)

\* The number of unread listed articles of a feed, counted from the table.
UnreadCount(f) ==
    Cardinality({a \in articles :
                    a.feed_id = f.id /\ ~a.is_read /\ ~a.unlisted})

\* C8 as stated: in every reachable state a listFeeds request that carries a
\* token returns exactly the token's feeds with at least one article that is
\* unread and not unlisted.
C8_Original ==
    (resp.op = "load_feeds" /\ ~Falsy(resp.cookie)) =>
        /\ resp.status = HttpOk
        /\ BodyIds(resp.body) =
              {f.id : f \in {g \in feeds :
                                g.token = resp.token /\ UnreadCount(g) >= 1}}

\* C8, the part that holds: whenever listFeeds answers with a list, the list
\* holds, once each, exactly the token's feeds with at least one article
\* that is unread and not unlisted, each with the number of such articles as
\* unread_count, in non-increasing order of it.
C8_FeedList ==
    Answered("load_feeds") =>
        /\ BodyIds(resp.body) =
              {f.id : f \in {g \in feeds :
                                g.token = resp.token /\ UnreadCount(g) >= 1}}
        /\ \A i \in DOMAIN resp.body : \E f \in feeds :
              /\ f.id = resp.body[i].id
              /\ resp.body[i].unread_count = UnreadCount(f)
              /\ resp.body[i].url = f.url
        /\ \A i, j \in DOMAIN resp.body :
              /\ resp.body[i].id = resp.body[j].id => i = j
              /\ i < j => resp.body[i].unread_count >= resp.body[j].unread_count

\* C8 witness: a feed list with two feeds of different unread counts.
C8_Witness ==
    /\ Answered("load_feeds")
    /\ \E i, j \in DOMAIN resp.body :
          resp.body[i].unread_count > resp.body[j].unread_count

\* C9: after purge(token, feed) listArticles(feed) returns exactly the
\* starred articles of the feed, every article is still stored (the
\* unstarred ones of the feed with unlisted set) and listFeeds does not
\* contain the feed.  On the way there, marking an unread listed article
\* read, or starring it, lowers the feed's unread_count by one.
C9_PurgeScenario ==
    [][/\ \A t \in Tokens, fid \in FeedIdInputs :
            (resp'.op = "purge_feed" /\ resp'.status = HttpOk
               /\ resp'.token = t /\ resp'.arg = fid) =>
                /\ {r.id : r \in LoadArticlesRows(fid, t)'} =
                      {a.id : a \in {b \in ArticlesOf(articles', fid, t) :
                                        b.starred}}
                /\ {a.id : a \in articles'} = {a.id : a \in articles}
                /\ \A a \in ArticlesOf(articles', fid, t) :
                      ~a.starred => a.unlisted
                /\ \A r \in LoadFeedsRows(t)' : r.id # fid
       /\ (resp'.status = HttpOk
           /\ (resp'.op = "mark_as_read"
                 \/ (resp'.op = "toggle_starred" /\ resp'.val = TRUE))) =>
            \A a \in articles :
                (a.id = resp'.arg /\ a.token = resp'.token
                   /\ ~a.is_read /\ ~a.unlisted) =>
                    \A f \in feeds : f.id = a.feed_id =>
                        UnreadCount(f)' = UnreadCount(f) - 1]_vars

\* C9 witness: the end of the scenario.  Right after the purge the feed
\* holds three articles: the starred one, listed; the one marked read and
\* the one never read, both unstarred and unlisted.
C9_Witness ==
    /\ Answered("purge_feed")
    /\ Cardinality(ArticlesOf(articles, resp.arg, resp.token)) = 3
    /\ \E a, b, c \in ArticlesOf(articles, resp.arg, resp.token) :
          /\ a.starred /\ a.is_read /\ ~a.unlisted
          /\ ~b.starred /\ b.is_read /\ b.unlisted
          /\ ~c.starred /\ ~c.is_read /\ c.unlisted

\* C10 as stated: a subscribe request that reaches the Feed Store, by any
\* entry point, answers "Feed already exists" and leaves the feeds unchanged
\* when the (url, token) pair is stored, and inserts exactly one feed row
\* when it is not.
C10_Original ==
    [][(resp'.op \in SubscribeOps /\ resp'.token # None /\ resp'.arg # None) =>
          IF FeedsByUrl(resp'.arg, resp'.token) # {}
          THEN resp'.error = "Feed already exists" /\ feeds' = feeds
          ELSE /\ resp'.status = HttpOk
               /\ feeds \subseteq feeds'
               /\ Cardinality(feeds') = Cardinality(feeds) + 1]_vars

\* C11 as stated: a request to a core operation (every endpoint; for index,
\* the subscription it makes when given a feed_url) that carries no token
\* cookie is answered with the authorization failure and leaves the feeds
\* and the articles unchanged, whatever else it carries.
C11_Original ==
    [][(/\ resp'.op # "idle"
        /\ resp'.cookie = None
        /\ resp'.op = "index" => (resp'.token # None /\ resp'.arg # None)) =>
          /\ resp'.status = HttpForbidden
          /\ feeds' = feeds
          /\ articles' = articles]_vars

\* C12 as stated: when feedparser could not retrieve or parse the feed of an
\* ingest, no article is written, the stored articles are unchanged, and the
\* request is answered with a failure, not with success.
C12_Original ==
    [][(/\ resp'.op \in IngestOps
        /\ resp'.status \in {HttpOk, HttpServerError}
        /\ resp'.val.bozo) =>
          /\ articles' = articles
          /\ resp'.status # HttpOk]_vars

\* C13: in every state reached by any interleaving of the statements of two
\* concurrent subscribe and ingest requests, committed or not, no two feeds
\* share a (url, token) and no two articles share a (url, token); a URL
\* repeated in an entry list, or carried by two feeds of the token, has one
\* article.
C13_Uniqueness ==
    /\ \A f, g \in feeds : (f.url = g.url /\ f.token = g.token) => f = g
    /\ \A a, b \in articles : (a.url = b.url /\ a.token = b.token) => a = b

\* C13 witness: two feeds of the token that both carry u3 are stored and
\* were ingested at once.  The ingest of the one drew its id first, the
\* ingest of the other inserted and committed first: the first found the key
\* stored, did nothing at its INSERT and is about to commit; u3 has one
\* article.
C13_Witness ==
    \E c \in Conns : \E a \in articles :
        /\ Cardinality(feeds) = 2
        /\ a.url = "u3"
        /\ Cardinality({b \in articles : b.url = "u3"}) = 1
        /\ txns[c].op \in IngestOps
        /\ txns[c].pc = "commit"
        /\ txns[c].arg # a.feed_id
        /\ txns[c].written = {}
        /\ txns[c].id > 0
        /\ txns[c].id < a.id

\* C14: listStarred(token) returns, once each, exactly the token's articles
\* with starred = TRUE, of every feed and unlisted or not; and an article
\* that is starred stays starred through every request except a
\* toggleStarred(false) of its token on it.
C14_StarredKept ==
    [][/\ (resp'.op = "load_starred_articles" /\ resp'.status = HttpOk) =>
            /\ BodyIds(resp'.body) =
                  {a.id : a \in {b \in articles' :
                                    b.starred /\ b.token = resp'.token}}
            /\ Len(resp'.body) = Cardinality(BodyIds(resp'.body))
       /\ \A a \in articles : a.starred =>
            \/ \E b \in articles' : b.id = a.id /\ b.starred
            \/ /\ resp'.op = "toggle_starred"
               /\ resp'.status = HttpOk
               /\ resp'.val = FALSE
               /\ resp'.arg = a.id
               /\ resp'.token = a.token]_vars

\* C14 witness: the starred list has just returned two articles of two
\* feeds, one of them unlisted by a purge.
C14_Witness ==
    /\ Answered("load_starred_articles")
    /\ \E a, b \in articles :
          /\ a.starred /\ b.starred /\ a.unlisted /\ a.feed_id # b.feed_id
          /\ {a.id, b.id} \subseteq BodyIds(resp.body)

\* C15 as stated: when an ingest fails on entry k of the fetched list (an
\* entry without link or title, with an unreadable date, or whose INSERT
\* fails), the articles of the entries 1..k-1 are stored after the request,
\* not rolled back.
C15_Original ==
    [][(resp'.op \in IngestOps /\ resp'.status = HttpServerError) =>
          \A i \in 1..Len(resp'.val.entries) :
              (\A j \in 1..i : ~(EntryRaises(resp'.val.entries[j])
                                    \/ UndefinedColumn)) =>
                  \E a \in articles' :
                      /\ a.url = resp'.val.entries[i].link
                      /\ a.token = resp'.token]_vars

\* C16: no request changes an article's is_read from TRUE to FALSE, and no
\* request removes an article or a feed: every stored article is stored
\* afterwards under its id, token, feed and URL, and every feed row is kept.
C16_ReadMonotonic ==
    [][/\ \A a \in articles : \E b \in articles' :
             /\ b.id = a.id /\ b.token = a.token
             /\ b.feed_id = a.feed_id /\ b.url = a.url
             /\ a.is_read => b.is_read
       /\ feeds \subseteq feeds']_vars

\* C16 witness: an article that is read has just been unstarred, and is
\* still read.
C16_Witness ==
    /\ Answered("toggle_starred")
    /\ resp.val = FALSE
    /\ \E a \in articles :
          /\ a.id = resp.arg /\ a.token = resp.token
          /\ a.is_read /\ ~a.starred /\ a.unlisted

\* The transaction of connection c, opened by handler op, commits in this
\* step.
Commits(c, op) ==
    txns[c].pc = "commit" /\ txns[c].op = op /\ txns'[c].pc = "idle"

\* C17: markRead(A) and purge(feed of A) served at once commute.  In every
\* interleaving of their statements, the commit of mark_as_read changes
\* nothing but is_read of its article and the commit of purge_feed nothing
\* but unlisted of the rows it updated, each on top of what the other has
\* committed; and no step clears is_read or unlisted.  So once both have
\* committed, in either order, A is read and unlisted.
C17_MarkReadPurgeCommute ==
    [][/\ \A c \in Conns :
            /\ Commits(c, "mark_as_read") =>
                  articles' = { IF a.id = txns[c].arg /\ a.token = txns[c].token
                                THEN [a EXCEPT !.is_read = TRUE]
                                ELSE a : a \in articles }
            /\ Commits(c, "purge_feed") =>
                  articles' = { IF \E w \in txns[c].written : w.id = a.id
                                THEN [a EXCEPT !.unlisted = TRUE]
                                ELSE a : a \in articles }
       /\ \A a \in articles : \E b \in articles' :
            /\ b.id = a.id
            /\ a.is_read => b.is_read
            /\ a.unlisted => b.unlisted]_vars

\* C17 witness: both requests are open on the same unread, listed, unstarred
\* article A.  mark_as_read has run its UPDATE and not yet committed;
\* purge_feed of A's feed is at its UPDATE, which waits for A's row.
C17_Witness ==
    \E c, d \in Conns : \E a \in articles :
        /\ ~a.is_read /\ ~a.unlisted /\ ~a.starred
        /\ txns[c].op = "mark_as_read" /\ txns[c].pc = "commit"
        /\ \E w \in txns[c].written : w.id = a.id /\ w.is_read
        /\ txns[d].op = "purge_feed" /\ txns[d].pc = "update"
        /\ txns[d].arg = a.feed_id /\ txns[d].token = a.token
        /\ RowLocked(d, UpdateTargets(txns[d]))

\* C18 as stated: two subscribe requests for one (url, token) served at
\* once, in every interleaving of their SELECT and their INSERT, leave
\* exactly one feed row for the pair, and each is answered with success or
\* with "Feed already exists", never with an uncaught storage error.
C18_Original ==
    [][resp'.op \in {"index", "subscribe_feed"} =>
          /\ Cardinality({f \in feeds' : f.url = resp'.arg
                                           /\ f.token = resp'.token}) = 1
          /\ \/ resp'.status = HttpOk
             \/ resp'.error = "Feed already exists"]_vars

\* C19: with boolean arguments, every starred article is read in the state
\* after every step (the initial state holds no article).  Consequently a listArticles answer holds no row that is unread
\* and starred, no starred article is among the articles a feed's
\* unread_count counts, and markAllStarredRead changes nothing.
C19_StarredIsRead ==
    [][/\ \A a \in articles' : a.starred => a.is_read
       /\ (resp'.op = "load_articles" /\ resp'.status = HttpOk) =>
             \A i \in DOMAIN resp'.body :
                 ~(resp'.body[i].starred /\ ~resp'.body[i].is_read)
       /\ \A f \in feeds' : \A a \in UnreadOf(f)' : ~a.starred
       /\ resp'.op = "mark_starred_as_read" => articles' = articles]_vars

\* C19 witness: markAllStarredRead has been answered for a token that holds
\* a starred article, next to an article that is still unread.
C19_Witness ==
    /\ Answered("mark_starred_as_read")
    /\ \E a, b \in articles :
          /\ a.token = resp.token /\ b.token = resp.token
          /\ a.starred /\ ~b.is_read

\* The feeds that own the article of `url` once the feed `first` and then the
\* feed `second` (records of a feed id and its entry list) have been
\* ingested into an empty article store.
OwnersAfter(first, second, url, token) ==
    LET r1 == MergeEntries({}, 0, first.entries, 1, first.id, token)
        r2 == MergeEntries(r1.rows, r1.seq, second.entries, 1, second.id, token)
    IN {a.feed_id : a \in {b \in r2.rows : b.url = url}}

\* C20: when an ingest of feed F2 returns an entry whose URL u is already
\* stored for the token under another feed F1, the article stays as it is,
\* with feed id F1; no article of u is stored under F2, listArticles(F2)
\* does not return it and it is not among the articles F2's unread_count
\* counts.  The owner depends on the order: ingesting F1's and F2's entry
\* lists into an empty store gives u to F1 in one order and to F2 in the
\* other.
C20_FirstIngestOwns ==
    [][\A t \in Tokens, fid \in FeedIdInputs :
          (/\ resp'.op \in IngestOps /\ resp'.status = HttpOk
           /\ resp'.token = t /\ resp'.arg = fid) =>
            \A a \in articles :
                (/\ a.token = t /\ a.feed_id # fid
                 /\ \E i \in 1..Len(resp'.val.entries) :
                       resp'.val.entries[i].link = a.url) =>
                    /\ a \in articles'
                    /\ \A b \in articles' :
                          (b.url = a.url /\ b.token = t) => b.feed_id = a.feed_id
                    /\ \A r \in LoadArticlesRows(fid, t)' : r.id # a.id
                    /\ \A f \in feeds : f.id = fid => a \notin UnreadOf(f)'
                    /\ \A f1 \in feeds : f1.id = a.feed_id =>
                          \A d1 \in Documents(f1.url) :
                              (\E i \in 1..Len(d1) : d1[i].link = a.url) =>
                                 LET x == [id |-> f1.id, entries |-> d1]
                                     y == [id |-> fid,
                                           entries |-> resp'.val.entries]
                                 IN /\ OwnersAfter(x, y, a.url, t) = {f1.id}
                                    /\ OwnersAfter(y, x, a.url, t) = {fid}]_vars

\* C20 witness: an ingest of F2 has just been answered; its entry list
\* carries the URL of an unread, listed article of the token's feed F1, and
\* F2 has got an article of its own from it.
C20_Witness ==
    /\ resp.op \in IngestOps /\ resp.status = HttpOk
    /\ \E a, b \in articles :
          /\ a.token = resp.token /\ b.token = resp.token
          /\ a.feed_id # resp.arg /\ b.feed_id = resp.arg
          /\ ~a.is_read /\ ~a.unlisted
          /\ \E i, j \in 1..Len(resp.val.entries) :
                /\ resp.val.entries[i].link = a.url
                /\ resp.val.entries[j].link = b.url

====
